---- MODULE Spec2Model ----
(***************************************************************************)
(* A model of unity-git-hooks: the PathNode / PathTree container           *)
(* (util/fs/pathtree.py), the path classification of UnityGitRepository    *)
(* (util/git.py) and the consistency check (check_unity_meta_files.py).    *)
(*                                                                         *)
(* A path segment (a PathNode name, one element of PurePath.parts) is a    *)
(* sequence of tokens; the token "." is the dot character, every other     *)
(* token is a run of characters without a dot.  A path is the sequence of  *)
(* its segments (PurePath.parts); the empty sequence is PurePath(".").     *)
(*                                                                         *)
(* The heap of PathNode objects is a function from object ids to records;  *)
(* an object's id is its identity (Python's `is`).  Objects that are no    *)
(* longer referenced from the root are dropped from the heap.              *)
(***************************************************************************)
EXTENDS Integers, Sequences, FiniteSets, TLC

VARIABLES
    nodes,      \* the PathNode heap of the tree: id -> [name, parent, kids]
    op,         \* the last operation called, with its arguments
    ret,        \* what that call returned: [tag, val]
    err,        \* the error that call raised, or NoError
    before,     \* history: the heap as it was when that call was made
    pc,         \* where check_unity_meta_files / main stands
    repo,       \* the repository: tracked paths, staged changes, working tree
    todo,       \* the staged changes not applied yet, per kind, kinds in order
    result,     \* what check_unity_meta_files returned and main's exit code
    local       \* proposed(): its local variable `path`, bound by the loops

treeVars == <<nodes, op, ret, err, before>>
checkVars == <<pc, repo, todo, result, local>>
vars == <<nodes, op, ret, err, before, pc, repo, todo, result, local>>

-----------------------------------------------------------------------------
(* Bounds *)

\* the largest number of non-root nodes a tree is grown to by PathTree calls
MaxNodes == 4
\* the largest number of non-root nodes a tree is grown to by add_child calls
MaxKids == 2
\* the largest number of tokens of a file name handed to the classification
MaxTokens == 5
\* the largest number of entries of a `git diff --name-status` output
MaxEntries == 2
\* the largest number of tracked paths of a repository
MaxTracked == 2
\* the largest number of staged changes of a repository
MaxStaged == 2
\* the largest number of files of a working tree
MaxFiles == 2
\* the largest number of non-root nodes of a tree grown by add and add_child
MaxShape == 2

-----------------------------------------------------------------------------
(* Paths *)

Range(s) == {s[i] : i \in 1..Len(s)}

DOT == <<".">>

IsPrefix(p, q) == Len(p) <= Len(q) /\ SubSeq(q, 1, Len(p)) = p
IsProperPrefix(p, q) == Len(p) < Len(q) /\ IsPrefix(p, q)

\* the path and all its prefixes, the root path <<>> included
Prefixes(path) == {SubSeq(path, 1, i) : i \in 0..Len(path)}

PrefixClosure(S) == UNION {Prefixes(p) : p \in S}

\* the paths handed to PathTree operations: a/b/c, a/b/d, a/e/f and their prefixes
TreeLeaves == { << <<"a">>, <<"b">>, <<"c">> >>,
                << <<"a">>, <<"b">>, <<"d">> >>,
                << <<"a">>, <<"e">>, <<"f">> >> }

TreePaths == PrefixClosure(TreeLeaves)

\* an absolute path: /a, whose parts are the root "/" and a
AbsPaths == { << <<"/">>, <<"a">> >> }

\* the path arguments of the PathTree calls
ArgPaths == TreePaths \cup AbsPaths

\* PurePath.parent and PurePath.name of a relative path of one or more parts
PathParent(path) == SubSeq(path, 1, Len(path) - 1)
PathName(path) == path[Len(path)]

\* PurePath.is_absolute: the first part of an absolute path is the root "/"
is_absolute(path) == Len(path) > 0 /\ path[1] = <<"/">>

-----------------------------------------------------------------------------
(* PathNode *)

None == -1
RootId == 0
NoError == "none"

Ret(tag, val) == [tag |-> tag, val |-> val]
RetNone == Ret("none", None)

Result(T, r, e) == [T |-> T, ret |-> r, err |-> e]
Raise(T, e) == [T |-> T, ret |-> RetNone, err |-> e]

\* PathNode(name, parent)
PathNode(name, parent) == [name |-> name, parent |-> parent, kids |-> <<>>]

\* PathTree.__init__: the tree holds the root node "." alone
EmptyTree == [i \in {RootId} |-> PathNode(DOT, None)]

\* the id of a newly created object: one that no live object has
FreshId(T) == CHOOSE i \in 0..Cardinality(DOMAIN T) :
                 /\ i \notin DOMAIN T
                 /\ \A j \in 0..Cardinality(DOMAIN T) : j \notin DOMAIN T => i <= j

\* the ids of the node n and of everything below it
RECURSIVE Subtree(_, _)
Subtree(T, n) == {n} \cup UNION {Subtree(T, k) : k \in Range(T[n].kids)}

Drop(T, ids) == [i \in (DOMAIN T) \ ids |-> T[i]]

children_count(T, n) == Len(T[n].kids)

has_children(T, n) == children_count(T, n) > 0

has_child(T, n, childname) == \E k \in Range(T[n].kids) : T[k].name = childname

\* PathNode.child, called where has_child holds
child(T, n, childname) == CHOOSE k \in Range(T[n].kids) : T[k].name = childname

is_root_node(T, n) == T[n].parent = None

\* PurePath(childname).parts: the name split at its separators, empty and "."
\* pieces dropped, a leading separator kept as the root part
RECURSIVE SplitRel(_)
SplitRel(name) ==
    IF name = <<>> THEN <<>>
    ELSE LET seps == {i \in 1..Len(name) : name[i] = "/"}
             i == IF seps = {} THEN Len(name) + 1
                  ELSE CHOOSE i \in seps : \A j \in seps : i <= j
             head == SubSeq(name, 1, i - 1)
             rest == SplitRel(SubSeq(name, i + 1, Len(name)))
         IN  (IF head = <<>> \/ head = DOT THEN <<>> ELSE <<head>>) \o rest

NameParts(name) ==
    IF name # <<>> /\ name[1] = "/" THEN << <<"/">> >> \o SplitRel(Tail(name))
    ELSE SplitRel(name)

\* add_child without the test for a child of the same name
add_child_allows_duplicate(T, n, childname) ==
    IF Len(NameParts(childname)) > 1 THEN Raise(T, "InvalidNameError")
    ELSE IF Len(childname) = 0 THEN Raise(T, "InvalidNameError")
    ELSE LET c == FreshId(T)
             T1 == [i \in (DOMAIN T) \cup {c} |->
                      IF i = c THEN PathNode(childname, n)
                      ELSE IF i = n THEN [T[n] EXCEPT !.kids = Append(@, c)]
                      ELSE T[i]]
         IN  Result(T1, Ret("node", c), NoError)

add_child(T, n, childname) ==
    IF Len(NameParts(childname)) > 1 THEN Raise(T, "InvalidNameError")
    ELSE IF has_child(T, n, childname) THEN Raise(T, "DuplicateChildError")
    ELSE IF Len(childname) = 0 THEN Raise(T, "InvalidNameError")
    ELSE LET c == FreshId(T)
             T1 == [i \in (DOMAIN T) \cup {c} |->
                      IF i = c THEN PathNode(childname, n)
                      ELSE IF i = n THEN [T[n] EXCEPT !.kids = Append(@, c)]
                      ELSE T[i]]
         IN  Result(T1, Ret("node", c), NoError)

SelectSeq1(s, x) == SelectSeq(s, LAMBDA k : k # x)

\* remove_child as `self._children.pop(childname, None)`: a missing child passes
remove_child_tolerant(T, n, childname) ==
    IF ~has_child(T, n, childname) THEN Result(T, Ret("node", n), NoError)
    ELSE LET c == child(T, n, childname)
             T1 == [T EXCEPT ![n].kids = SelectSeq1(@, c)]
         IN  Result(Drop(T1, Subtree(T, c)), Ret("node", n), NoError)

remove_child(T, n, childname) ==
    IF ~has_child(T, n, childname) THEN Raise(T, "NotFoundError")
    ELSE LET c == child(T, n, childname)
             T1 == [T EXCEPT ![n].kids = SelectSeq1(@, c)]
         IN  Result(Drop(T1, Subtree(T, c)), Ret("node", n), NoError)

\* PathNode.clear
node_clear(T, n) ==
    LET T1 == [T EXCEPT ![n].kids = <<>>]
    IN  Drop(T1, Subtree(T, n) \ {n})

\* PathNode.has_descendant: the walk from node n along path
RECURSIVE has_descendant(_, _, _)
has_descendant(T, n, path) ==
    IF path = <<>> THEN TRUE
    ELSE IF has_child(T, n, Head(path))
         THEN has_descendant(T, child(T, n, Head(path)), Tail(path))
         ELSE FALSE

\* PathNode.descendant: the id of the node, or None where the code raises
RECURSIVE descendant(_, _, _)
descendant(T, n, path) ==
    IF path = <<>> THEN n
    ELSE IF has_child(T, n, Head(path))
         THEN descendant(T, child(T, n, Head(path)), Tail(path))
         ELSE None

-----------------------------------------------------------------------------
(* PathTree *)

is_path_to_root(path) == Len(path) = 0

\* add without the has_child lookup: every part is handed to add_child
RECURSIVE add_walk_no_lookup(_, _, _)
add_walk_no_lookup(T, n, parts) ==
    IF parts = <<>> THEN Result(T, Ret("node", n), NoError)
    ELSE LET r == add_child(T, n, Head(parts))
         IN  IF r.err # NoError THEN Raise(T, r.err)
             ELSE add_walk_no_lookup(r.T, r.ret.val, Tail(parts))

\* add that drops add_child's result: the walk stays at the node it was at
RECURSIVE add_walk_no_descend(_, _, _)
add_walk_no_descend(T, n, parts) ==
    IF parts = <<>> THEN Result(T, Ret("node", n), NoError)
    ELSE IF has_child(T, n, Head(parts))
         THEN add_walk_no_descend(T, child(T, n, Head(parts)), Tail(parts))
         ELSE LET r == add_child(T, n, Head(parts))
              IN  IF r.err # NoError THEN Raise(T, r.err)
                  ELSE add_walk_no_descend(r.T, n, Tail(parts))

\* the loop of PathTree.add: from node n, along the parts still to walk
RECURSIVE add_walk(_, _, _)
add_walk(T, n, parts) ==
    IF parts = <<>> THEN Result(T, Ret("node", n), NoError)
    ELSE IF has_child(T, n, Head(parts))
         THEN add_walk(T, child(T, n, Head(parts)), Tail(parts))
         ELSE LET r == add_child(T, n, Head(parts))
              IN  IF r.err # NoError THEN Raise(T, r.err)
                  ELSE add_walk(r.T, r.ret.val, Tail(parts))

PathTree_add(T, path) ==
    IF is_absolute(path) THEN Raise(T, "InvalidPathError")
    ELSE add_walk(T, RootId, path)

PathTree_clear(T) == node_clear(T, RootId)

\* remove that looks the parent up at path, not at path.parent
PathTree_remove_at_path(T, path) ==
    IF is_path_to_root(path) THEN Result(node_clear(T, RootId), RetNone, NoError)
    ELSE LET parent == descendant(T, RootId, path)
         IN  IF parent = None THEN Raise(T, "NotFoundError")
             ELSE remove_child(T, parent, PathName(path))

\* remove that returns None for the root path without clearing the tree
PathTree_remove_no_clear(T, path) ==
    IF is_path_to_root(path) THEN Result(T, RetNone, NoError)
    ELSE LET parent == descendant(T, RootId, PathParent(path))
         IN  IF parent = None THEN Raise(T, "NotFoundError")
             ELSE remove_child(T, parent, PathName(path))

PathTree_remove(T, path) ==
    IF is_path_to_root(path) THEN Result(PathTree_clear(T), RetNone, NoError)
    ELSE LET parent == descendant(T, RootId, PathParent(path))
         IN  IF parent = None THEN Raise(T, "NotFoundError")
             ELSE remove_child(T, parent, PathName(path))

PathTree_descendant(T, path) ==
    LET n == descendant(T, RootId, path)
    IN  IF n = None THEN Raise(T, "NotFoundError")
        ELSE Result(T, Ret("node", n), NoError)

PathTree_has_descendant(T, path) ==
    Result(T, Ret("bool", has_descendant(T, RootId, path)), NoError)

PathTree_children(T, path) ==
    LET r == PathTree_descendant(T, path)
    IN  IF r.err # NoError THEN r
        ELSE Result(T, Ret("nodes", T[r.ret.val].kids), NoError)

PathTree_children_count(T, path) ==
    IF is_absolute(path) THEN Raise(T, "InvalidPathError")
    ELSE LET n == descendant(T, RootId, path)
         IN  IF n = None THEN Raise(T, "NotFoundError")
             ELSE Result(T, Ret("int", children_count(T, n)), NoError)

PathTree_has_children(T, path) ==
    LET r == PathTree_children_count(T, path)
    IN  IF r.err # NoError THEN r
        ELSE Result(T, Ret("bool", r.ret.val > 0), NoError)

\* the climb that tests the node itself against the limit, not its parent
RECURSIVE climb_tests_node(_, _, _)
climb_tests_node(T, n, limit_node) ==
    IF T[n].parent = None \/ n = limit_node THEN n
    ELSE climb_tests_node(T, T[n].parent, limit_node)

\* the first loop of prune: climb from n until the parent is None or the limit
RECURSIVE climb(_, _, _)
climb(T, n, limit_node) ==
    IF T[n].parent = None \/ T[n].parent = limit_node THEN n
    ELSE climb(T, T[n].parent, limit_node)

\* the second loop of prune without its test for the limit node
RECURSIVE prune_up_no_limit(_, _, _)
prune_up_no_limit(T, parent, limit_node) ==
    IF ~is_root_node(T, parent) /\ ~has_children(T, parent)
    THEN LET up == T[parent].parent
         IN  prune_up_no_limit(remove_child(T, up, T[parent].name).T, up, limit_node)
    ELSE Result(T, Ret("node", parent), NoError)

\* the second loop of prune: remove the childless ancestors
RECURSIVE prune_up(_, _, _)
prune_up(T, parent, limit_node) ==
    IF ~is_root_node(T, parent) /\ parent # limit_node /\ ~has_children(T, parent)
    THEN LET up == T[parent].parent
         IN  prune_up(remove_child(T, up, T[parent].name).T, up, limit_node)
    ELSE Result(T, Ret("node", parent), NoError)

\* prune that unlinks the node before it tests the limit
PathTree_prune_unlinks_first(T, path, limit_path) ==
    LET node == descendant(T, RootId, path)
        limit_node == descendant(T, RootId, limit_path)
    IN  IF node = None \/ limit_node = None THEN Raise(T, "NotFoundError")
        ELSE IF is_root_node(T, node) THEN Raise(T, "InvalidArgumentError")
        ELSE LET parent == T[node].parent
                 T1 == remove_child(T, parent, T[node].name).T
             IN  IF T[climb(T, node, limit_node)].parent = None
                 THEN Raise(T1, "InvalidArgumentError")
                 ELSE prune_up(T1, parent, limit_node)

PathTree_prune(T, path, limit_path) ==
    LET node == descendant(T, RootId, path)
        limit_node == descendant(T, RootId, limit_path)
    IN  IF node = None \/ limit_node = None THEN Raise(T, "NotFoundError")
        ELSE IF T[climb(T, node, limit_node)].parent = None
             THEN Raise(T, "InvalidArgumentError")
             ELSE LET parent == T[node].parent
                  IN  prune_up(remove_child(T, parent, T[node].name).T,
                               parent, limit_node)

\* the loop of traverse_breadth_first: q is the deque, out what was yielded
RECURSIVE breadth_first_loop(_, _, _)
breadth_first_loop(T, q, out) ==
    IF q = <<>> THEN out
    ELSE LET node == Head(q)
         IN  breadth_first_loop(T,
                 IF children_count(T, node) > 0 THEN Tail(q) \o T[node].kids ELSE Tail(q),
                 Append(out, node))

\* the loop of traverse_depth_first: s is the list used as a stack
RECURSIVE depth_first_loop(_, _, _)
depth_first_loop(T, s, out) ==
    IF s = <<>> THEN out
    ELSE LET node == s[Len(s)]
             rest == SubSeq(s, 1, Len(s) - 1)
         IN  depth_first_loop(T,
                 IF children_count(T, node) > 0 THEN rest \o T[node].kids ELSE rest,
                 Append(out, node))

\* the deque of traverse_breadth_first popped at its right end
traverse_breadth_first_as_stack(T) == depth_first_loop(T, <<RootId>>, <<>>)

traverse_breadth_first(T) == breadth_first_loop(T, <<RootId>>, <<>>)

\* the stack of traverse_depth_first popped at its left end
traverse_depth_first_as_queue(T) == breadth_first_loop(T, <<RootId>>, <<>>)

traverse_depth_first(T) == depth_first_loop(T, <<RootId>>, <<>>)

\* PurePath's "/": a "." segment leaves the base as it is
Join(base, name) == IF name = DOT THEN base ELSE Append(base, name)

\* the loop of all_paths: q is the deque of (base, nodes), out what was yielded.
\* `node.has_children` is the bound method, which is always true: every node's
\* children list is queued, an empty one too.
RECURSIVE all_paths_loop(_, _, _)
all_paths_loop(T, q, out) ==
    IF q = <<>> THEN out
    ELSE LET base == Head(q).base
             ns == Head(q).nodes
             paths == [i \in 1..Len(ns) |-> Join(base, T[ns[i]].name)]
             more == [i \in 1..Len(ns) |-> [base |-> paths[i], nodes |-> T[ns[i]].kids]]
         IN  all_paths_loop(T, Tail(q) \o more, out \o paths)

\* all_paths that yields a node's path only where the node has no children
all_paths_leaves_only(T) ==
    LET all == all_paths_loop(T, << [base |-> <<>>, nodes |-> <<RootId>>] >>, <<>>)
    IN  SelectSeq(all, LAMBDA p : \A i \in 1..Len(all) : ~IsProperPrefix(p, all[i]))

all_paths(T) == all_paths_loop(T, << [base |-> <<>>, nodes |-> <<RootId>>] >>, <<>>)

\* PathTree.from_iterable: add every path of the sequence, in its order
RECURSIVE from_iterable(_, _)
from_iterable(T, paths) ==
    IF paths = <<>> THEN Result(T, RetNone, NoError)
    ELSE LET r == PathTree_add(T, Head(paths))
         IN  IF r.err # NoError THEN Raise(T, r.err)
             ELSE from_iterable(r.T, Tail(paths))

\* the path of node n from the root, read off the parent references
RECURSIVE PathOf(_, _)
PathOf(T, n) == IF T[n].parent = None THEN <<>>
                ELSE Append(PathOf(T, T[n].parent), T[n].name)

\* the set of paths of the tree (the root path <<>> included)
PathSet(T) == {PathOf(T, n) : n \in Subtree(T, RootId)}

-----------------------------------------------------------------------------
(* The PathTree specification: any sequence of operations on one tree *)

Call(name, path, limit, r) ==
    /\ op' = [name |-> name, path |-> path, limit |-> limit, childname |-> <<>>]
    /\ nodes' = r.T
    /\ ret' = r.ret
    /\ err' = r.err
    /\ before' = nodes

TreeCall(name, path, limit, r) ==
    /\ Call(name, path, limit, r)
    /\ UNCHANGED checkVars

NoOp == [name |-> "init", path |-> <<>>, limit |-> <<>>, childname |-> <<>>]

NoRepo == [tracked |-> {}, staged |-> <<>>, files |-> {}, dirs |-> {}]
NoResult == [success |-> FALSE, missing |-> {}, orphans |-> {}, exit |-> None]

\* a local variable that no statement has bound yet
Unbound == [bound |-> FALSE, path |-> <<>>]

InitTree ==
    /\ nodes = EmptyTree
    /\ op = NoOp
    /\ ret = RetNone
    /\ err = NoError
    /\ before = EmptyTree
    /\ pc = "tree"
    /\ repo = NoRepo
    /\ todo = <<>>
    /\ result = NoResult
    /\ local = Unbound

Size(T) == Cardinality(DOMAIN T) - 1

Add ==
    \E path \in ArgPaths :
        LET r == PathTree_add(nodes, path)
        IN  /\ Size(r.T) <= MaxNodes
            /\ TreeCall("add", path, <<>>, r)

Remove ==
    \E path \in ArgPaths : TreeCall("remove", path, <<>>, PathTree_remove(nodes, path))

Clear == TreeCall("clear", <<>>, <<>>, Result(PathTree_clear(nodes), RetNone, NoError))

Prune ==
    \E path \in ArgPaths, limit_path \in ArgPaths :
        TreeCall("prune", path, limit_path, PathTree_prune(nodes, path, limit_path))

Descendant ==
    \E path \in ArgPaths :
        TreeCall("descendant", path, <<>>, PathTree_descendant(nodes, path))

HasDescendant ==
    \E path \in ArgPaths :
        TreeCall("has_descendant", path, <<>>, PathTree_has_descendant(nodes, path))

Children ==
    \E path \in ArgPaths :
        TreeCall("children", path, <<>>, PathTree_children(nodes, path))

ChildrenCount ==
    \E path \in ArgPaths :
        TreeCall("children_count", path, <<>>, PathTree_children_count(nodes, path))

HasChildren ==
    \E path \in ArgPaths :
        TreeCall("has_children", path, <<>>, PathTree_has_children(nodes, path))

NextTree ==
    \/ HasDescendant
    \/ Add
    \/ Remove
    \/ Clear
    \/ Prune
    \/ Descendant
    \/ Children
    \/ ChildrenCount
    \/ HasChildren

SpecTree == InitTree /\ [][NextTree]_vars

-----------------------------------------------------------------------------
(* The traversal specification: a tree grown by add alone, and walked *)

Grow ==
    \E path \in TreePaths : TreeCall("add", path, <<>>, PathTree_add(nodes, path))

TraverseBreadthFirst ==
    TreeCall("traverse_breadth_first", <<>>, <<>>,
             Result(nodes, Ret("nodes", traverse_breadth_first(nodes)), NoError))

TraverseDepthFirst ==
    TreeCall("traverse_depth_first", <<>>, <<>>,
             Result(nodes, Ret("nodes", traverse_depth_first(nodes)), NoError))

AllPaths ==
    TreeCall("all_paths", <<>>, <<>>,
             Result(nodes, Ret("paths", all_paths(nodes)), NoError))

NextWalk ==
    \/ Grow
    \/ TraverseBreadthFirst
    \/ TraverseDepthFirst
    \/ AllPaths

SpecWalk == InitTree /\ [][NextWalk]_vars

-----------------------------------------------------------------------------
(* The PathNode specification: add_child and remove_child called on the nodes *)
(* of one tree.  `op.path` is the path of the node called on.                *)

\* the child names handed to add_child: a, b, the empty string, a/b, a/ and /
ChildNames == { <<"a">>, <<"b">>, <<>>, <<"a", "/", "b">>, <<"a", "/">>, <<"/">> }

NodeCall(name, n, childname, r) ==
    /\ op' = [name |-> name, path |-> PathOf(nodes, n), limit |-> <<>>,
              childname |-> childname]
    /\ nodes' = r.T
    /\ ret' = r.ret
    /\ err' = r.err
    /\ before' = nodes
    /\ UNCHANGED checkVars

AddChild ==
    \E n \in DOMAIN nodes, childname \in ChildNames :
        LET r == add_child(nodes, n, childname)
        IN  /\ Size(r.T) <= MaxKids
            /\ NodeCall("add_child", n, childname, r)

RemoveChild ==
    \E n \in DOMAIN nodes, childname \in ChildNames :
        NodeCall("remove_child", n, childname, remove_child(nodes, n, childname))

NextNode ==
    \/ AddChild
    \/ RemoveChild

SpecNode == InitTree /\ [][NextNode]_vars

-----------------------------------------------------------------------------
(* UnityGitRepository: the classification of paths *)

ASSETS == <<"Assets">>
META == <<".", "meta">>

\* PurePath.suffix of a name: from its last dot on, unless that dot is the
\* first or the last character of the name
NameSuffix(name) ==
    LET dots == {i \in 1..Len(name) : name[i] = "."}
    IN  IF dots = {} THEN <<>>
        ELSE LET i == CHOOSE i \in dots : \A j \in dots : j <= i
             IN  IF 1 < i /\ i < Len(name) THEN SubSeq(name, i, Len(name)) ELSE <<>>

suffix(path) == IF path = <<>> THEN <<>> ELSE NameSuffix(PathName(path))

\* PurePath.with_suffix, called on a path that has a name
with_suffix(path, sfx) ==
    LET name == PathName(path)
        old == NameSuffix(name)
        stem == SubSeq(name, 1, Len(name) - Len(old))
    IN  Append(PathParent(path), stem \o sfx)

is_hidden(path) == \E i \in 1..Len(path) : Head(path[i]) = "."

is_asset(path) ==
    IF Len(path) > 1 /\ path[1] = ASSETS
    THEN ~is_hidden(path) /\ suffix(path) # META
    ELSE FALSE

\* is_meta_file without the test for the Assets root
is_meta_file_any_root(path) == ~is_hidden(path) /\ suffix(path) = META

is_meta_file(path) ==
    IF Len(path) > 1 /\ path[1] = ASSETS
    THEN ~is_hidden(path) /\ suffix(path) = META
    ELSE FALSE

\* meta_file_for_asset with the suffix replaced, not extended
meta_file_for_asset_replaces_suffix(asset_path) == with_suffix(asset_path, META)

\* the path returned by meta_file_for_asset, line 402
meta_file_for_asset(asset_path) == with_suffix(asset_path, suffix(asset_path) \o META)

\* the path returned by asset_for_meta_file, line 419
asset_for_meta_file(meta_file_path) == with_suffix(meta_file_path, <<>>)

\* PurePath.name is not empty: with_suffix raises ValueError on an empty name
HasName(path) == path # <<>>

\* the call of meta_file_for_asset, lines 398-402
meta_file_for_asset_call(T, asset_path) ==
    IF suffix(asset_path) = META THEN Raise(T, "UsageError")
    ELSE IF ~HasName(asset_path) THEN Raise(T, "EmptyNameError")
    ELSE Result(T, Ret("path", meta_file_for_asset(asset_path)), NoError)

\* the call of asset_for_meta_file, lines 417-419
asset_for_meta_file_call(T, meta_file_path) ==
    IF suffix(meta_file_path) # META THEN Raise(T, "UsageError")
    ELSE Result(T, Ret("path", asset_for_meta_file(meta_file_path)), NoError)

\* path_exists that sees the files only, not the directories
path_exists_files_only(w, path) == path \in w.files

\* GitRepository.path_exists and is_file, on the working tree w
path_exists(w, path) == path = <<>> \/ path \in w.files \/ path \in w.dirs
is_file(w, path) == path \in w.files

-----------------------------------------------------------------------------
(* The operations that change a tree, of PathTree and of PathNode, mixed in  *)
(* any sequence on one tree                                                  *)

\* the paths handed to the PathTree operations: a/b/c, a/e and their prefixes
ShapePaths == PrefixClosure({ << <<"a">>, <<"b">>, <<"c">> >>, << <<"a">>, <<"e">> >> })

ShapeAdd ==
    \E path \in ShapePaths :
        LET r == PathTree_add(nodes, path)
        IN  /\ Size(r.T) <= MaxShape
            /\ TreeCall("add", path, <<>>, r)

ShapeRemove ==
    \E path \in ShapePaths : TreeCall("remove", path, <<>>, PathTree_remove(nodes, path))

ShapePrune ==
    \E path \in ShapePaths, limit_path \in ShapePaths :
        TreeCall("prune", path, limit_path, PathTree_prune(nodes, path, limit_path))

ShapeAddChild ==
    \E n \in DOMAIN nodes, childname \in ChildNames :
        LET r == add_child(nodes, n, childname)
        IN  /\ Size(r.T) <= MaxShape
            /\ NodeCall("add_child", n, childname, r)

NextShape ==
    \/ ShapeAdd
    \/ ShapeRemove
    \/ Clear
    \/ ShapePrune
    \/ ShapeAddChild
    \/ RemoveChild

SpecShape == InitTree /\ [][NextShape]_vars

-----------------------------------------------------------------------------
(* The classification specification: the static methods called on paths *)

Tokens == {"a", ".", "meta"}

\* the file names: the strings of up to MaxTokens tokens, less the name "."
\* that PurePath drops from the parts
ClassNames ==
    {n \in UNION {[1..k -> Tokens] : k \in 1..MaxTokens} :
        /\ n # DOT
        /\ \A i \in 1..(Len(n) - 1) : n[i] = "." \/ n[i + 1] = "."}

\* the directories the names are put in: ., Assets, a, Assets/a, Assets/.a,
\* Assets/a.meta, /Assets
ClassDirs ==
    { <<>>,
      <<ASSETS>>,
      << <<"a">> >>,
      <<ASSETS, <<"a">> >>,
      <<ASSETS, <<".", "a">> >>,
      <<ASSETS, <<"a", ".", "meta">> >>,
      << <<"/">>, ASSETS >> }

ClassPaths == {<<>>} \cup {Append(d, n) : d \in ClassDirs, n \in ClassNames \cup {ASSETS}}

\* a path is drawn; one of the methods is then called on it
InitPaths ==
    /\ nodes = EmptyTree
    /\ \E path \in ClassPaths : op = [NoOp EXCEPT !.path = path]
    /\ ret = RetNone
    /\ err = NoError
    /\ before = EmptyTree
    /\ pc = "paths"
    /\ repo = NoRepo
    /\ todo = <<>>
    /\ result = NoResult
    /\ local = Unbound

IsAsset ==
    /\ op.name = "init"
    /\ LET path == op.path
       IN  TreeCall("is_asset", path, <<>>, Result(nodes, Ret("bool", is_asset(path)), NoError))

IsMetaFile ==
    /\ op.name = "init"
    /\ LET path == op.path
       IN  TreeCall("is_meta_file", path, <<>>,
                 Result(nodes, Ret("bool", is_meta_file(path)), NoError))

MetaFileForAsset ==
    /\ op.name = "init"
    /\ LET path == op.path
       IN  TreeCall("meta_file_for_asset", path, <<>>, meta_file_for_asset_call(nodes, path))

AssetForMetaFile ==
    /\ op.name = "init"
    /\ LET path == op.path
       IN  TreeCall("asset_for_meta_file", path, <<>>, asset_for_meta_file_call(nodes, path))

NextPaths ==
    \/ IsAsset
    \/ IsMetaFile
    \/ MetaFileForAsset
    \/ AssetForMetaFile

SpecPaths == InitPaths /\ [][NextPaths]_vars

-----------------------------------------------------------------------------
(* GitRepository: tracked_at and staged_at.  A word of git's output is a     *)
(* string, modelled as the sequence of its characters; Path(word) is the     *)
(* word split into its parts.                                                *)

\* Path(word)
Path(word) == NameParts(word)

\* the files of HEAD: d/a, d/b and b
HeadWords == { <<"d", "/", "a">>, <<"d", "/", "b">>, <<"b">> }

\* the scope arguments: "d/", "e/" and "."
ScopeWords == { <<"d", "/">>, <<"e", "/">>, <<".">> }

\* the directories the working tree may hold besides the project root
ScopeDirs == { << <<"d">> >>, << <<"e">> >> }

\* (self.root / path).is_dir()
scope_is_dir(r, scope) == Path(scope) = <<>> \/ Path(scope) \in r.dirs

\* what `git ls-tree --name-only --full-tree -r HEAD [path]` prints: the
\* files of HEAD, those below path when a path is given
ls_tree(head, scoped, scope) ==
    IF scoped THEN {w \in head : IsProperPrefix(Path(scope), Path(w))} ELSE head

tracked_at(r, scope) ==
    {Path(line) : line \in ls_tree(r.head, scope_is_dir(r, scope), scope)}

\* the status words of git: added, deleted, renamed, modified, copied
StatusA == <<"A">>
StatusD == <<"D">>
StatusR == <<"R", "1", "0", "0">>
StatusM == <<"M">>
StatusC == <<"C", "7", "5">>

\* the file names of the entries: a, Ra, A and d/a
PathWords == { <<"a">>, <<"R", "a">>, <<"A">>, <<"d", "/", "a">> }

\* the entries of an output: a status and its one or two paths
Entries ==
    {[status |-> st, paths |-> <<w>>] : st \in {StatusA, StatusD, StatusM}, w \in PathWords}
    \cup {e \in {[status |-> st, paths |-> <<v, w>>] :
                     st \in {StatusR, StatusC}, v \in PathWords, w \in PathWords} :
              e.paths[1] # e.paths[2]}

\* the outputs: sequences of entries that name no path twice
Outputs ==
    {out \in UNION {[1..k -> Entries] : k \in 0..MaxEntries} :
        \A i \in 1..Len(out), j \in 1..Len(out) :
           i < j => Range(out[i].paths) \cap Range(out[j].paths) = {}}

\* cmd_output.split("\0"): the statuses and paths of the entries, in order
RECURSIVE Words(_)
Words(out) ==
    IF out = <<>> THEN <<>>
    ELSE <<Head(out).status>> \o Head(out).paths \o Words(Tail(out))

\* changes.setdefault(key, set()).add(t), the dict as the sequence of its items
SetDefaultAdd(changes, key, t) ==
    IF \E i \in 1..Len(changes) : changes[i].change = key
    THEN [i \in 1..Len(changes) |->
            IF changes[i].change = key
            THEN [changes[i] EXCEPT !.paths = @ \cup {t}]
            ELSE changes[i]]
    ELSE Append(changes, [change |-> key, paths |-> {t}])

\* the loop of staged_at, lines 133-166: i is the index of the word read
\* (counted from 1), changes the dict built so far
RECURSIVE staged_loop(_, _, _)
staged_loop(words, i, changes) ==
    IF ~(i <= Len(words)) THEN changes
    ELSE LET change == words[i]
         IN  IF change = <<"A">> /\ i + 1 <= Len(words)
             THEN staged_loop(words, i + 2,
                      SetDefaultAdd(changes, "A", <<Path(words[i + 1])>>))
             ELSE IF change = <<"D">> /\ i + 1 <= Len(words)
             THEN staged_loop(words, i + 2,
                      SetDefaultAdd(changes, "D", <<Path(words[i + 1])>>))
             ELSE IF change[1] = "R" /\ i + 2 <= Len(words)
             THEN staged_loop(words, i + 3,
                      SetDefaultAdd(changes, "R", <<Path(words[i + 1]), Path(words[i + 2])>>))
             ELSE staged_loop(words, i + 1, changes)

\* staged_at on the output `out` of git
staged_at(out) == staged_loop(Words(out), 1, <<>>)

NoGit == [head |-> {}, dirs |-> {}, diff |-> <<>>]

\* a repository is drawn: the files of HEAD and the directories of the
\* working tree; one of the two methods is then called on it
InitGit ==
    /\ nodes = EmptyTree
    /\ op = NoOp
    /\ ret = RetNone
    /\ err = NoError
    /\ before = EmptyTree
    /\ pc = "git"
    /\ \E head \in SUBSET HeadWords, dirs \in SUBSET ScopeDirs :
          repo = [NoGit EXCEPT !.head = head, !.dirs = dirs]
    /\ todo = <<>>
    /\ result = NoResult
    /\ local = Unbound

TrackedAt ==
    /\ op.name = "init"
    /\ \E scope \in ScopeWords :
          Call("tracked_at", Path(scope), <<>>,
               Result(nodes, Ret("paths", tracked_at(repo, scope)), NoError))
    /\ UNCHANGED checkVars

\* staged_at: `out` is what git prints
StagedAt ==
    /\ op.name = "init"
    /\ \E out \in Outputs :
          /\ Call("staged_at", <<>>, <<>>, Result(nodes, Ret("changes", staged_at(out)), NoError))
          /\ repo' = [repo EXCEPT !.diff = out]
    /\ UNCHANGED <<pc, todo, result, local>>

NextGit ==
    \/ TrackedAt
    \/ StagedAt

SpecGit == InitGit /\ [][NextGit]_vars

-----------------------------------------------------------------------------
(* The repositories the check is run on *)

Orderings(S) == {s \in [1..Cardinality(S) -> S] : Range(s) = S}

SubsetsUpTo(S, n) == {X \in SUBSET S : Cardinality(X) <= n}

PrefixFree(S) == \A p \in S, q \in S : ~IsProperPrefix(p, q)

CheckNames == {<<"a">>, <<"a", ".", "meta">>}
HiddenName == <<".", "h">>

\* the paths that are tracked or staged: Assets/x, Assets/x/a, Assets/.h/a
CheckPaths ==
    {<<ASSETS, x>> : x \in CheckNames}
    \cup {<<ASSETS, x, <<"a">> >> : x \in CheckNames \cup {HiddenName}}

\* what tracked_at("Assets/") returns: the files of HEAD under Assets
TrackedSets == {X \in SubsetsUpTo(CheckPaths, MaxTracked) : PrefixFree(X)}

\* the entries `git diff --cached --name-status` can list against HEAD = tracked
Changes(tracked) ==
    {[change |-> "D", paths |-> <<p>>] : p \in tracked}
    \cup {[change |-> "A", paths |-> <<p>>] : p \in CheckPaths \ tracked}
    \cup {[change |-> "R", paths |-> <<o, n>>] : o \in tracked, n \in CheckPaths \ tracked}

Gone(C) == {c.paths[1] : c \in {d \in C : d.change \in {"D", "R"}}}
Come(C) == {c.paths[Len(c.paths)] : c \in {d \in C : d.change \in {"A", "R"}}}

\* the files of the index: HEAD with the staged changes applied
Index(tracked, C) == (tracked \ Gone(C)) \cup Come(C)

\* a set of entries names no path twice and leaves an index that git can hold
ChangeSets(tracked) ==
    {C \in SubsetsUpTo(Changes(tracked), MaxStaged) :
        /\ \A c \in C, d \in C :
              c # d => c.paths[1] # d.paths[1] /\ c.paths[Len(c.paths)] # d.paths[Len(d.paths)]
        /\ PrefixFree(Index(tracked, C))}

Kinds(C) == {c.change : c \in C}

\* what staged_at("Assets/") returns: a dict, kinds in the order they were met
StagedDicts(C) ==
    {[i \in 1..Len(ks) |-> [change |-> ks[i],
                            paths |-> {c.paths : c \in {d \in C : d.change = ks[i]}}]] :
        ks \in Orderings(Kinds(C))}

\* the working trees: files at the paths that are tracked or staged and at
\* their companions, directories above the files, Assets a directory
WtPaths == CheckPaths \cup {meta_file_for_asset(p) : p \in {q \in CheckPaths : is_asset(q)}}

WorkTree(F) ==
    [files |-> F, dirs |-> (PrefixClosure(F) \ (F \cup {<<>>})) \cup {<<ASSETS>>}]

WorkTrees == {WorkTree(F) : F \in {X \in SubsetsUpTo(WtPaths, MaxFiles) : PrefixFree(X)}}

-----------------------------------------------------------------------------
(* check_unity_meta_files and main *)

\* the filter left out: every path passes
NotHidden_unfiltered(S) == S

NotHidden(S) == {p \in S : ~is_hidden(p)}

\* the loop over all_paths(): `paths` is what is still to be visited
RECURSIVE scan(_, _, _, _)
scan(paths, w, missing, orphans) ==
    IF paths = <<>> THEN [missing |-> missing, orphans |-> orphans]
    ELSE LET path == Head(paths)
         IN  IF is_asset(path) /\ path_exists(w, path)
             THEN IF ~is_file(w, meta_file_for_asset(path))
                  THEN scan(Tail(paths), w, missing \cup {meta_file_for_asset(path)}, orphans)
                  ELSE scan(Tail(paths), w, missing, orphans)
             ELSE IF is_meta_file(path) /\ is_file(w, path)
                  THEN IF ~path_exists(w, asset_for_meta_file(path))
                       THEN scan(Tail(paths), w, missing, orphans \cup {path})
                       ELSE scan(Tail(paths), w, missing, orphans)
                  ELSE scan(Tail(paths), w, missing, orphans)

\* the tuple with success read off `missing` alone
Returned_missing_only(missing, orphans) ==
    [success |-> Cardinality(missing) = 0,
     missing |-> missing,
     orphans |-> orphans,
     exit |-> None]

\* line 54: the tuple returned
Returned(missing, orphans) ==
    [success |-> Cardinality(missing) + Cardinality(orphans) = 0,
     missing |-> missing,
     orphans |-> orphans,
     exit |-> None]

\* line 67: main's exit code
exit_code(success) == IF success THEN 0 ELSE 1

InitCheck ==
    /\ nodes = EmptyTree
    /\ op = NoOp
    /\ ret = RetNone
    /\ err = NoError
    /\ before = EmptyTree
    /\ pc = "start"
    /\ \E tracked \in TrackedSets :
          \E C \in ChangeSets(tracked) :
             \E staged \in StagedDicts(C) :
                repo = [tracked |-> tracked, staged |-> staged, files |-> {}, dirs |-> {}]
    /\ todo = <<>>
    /\ result = NoResult
    /\ local = Unbound

\* lines 13-19: the tree of the tracked paths that are not hidden
Build ==
    /\ pc = "start"
    /\ \E paths \in Orderings(NotHidden(repo.tracked)) :
          Call("from_iterable", <<>>, <<>>, from_iterable(EmptyTree, paths))
    /\ pc' = "staged"
    /\ todo' = repo.staged
    /\ UNCHANGED <<repo, result, local>>

\* the dict entry being iterated, less the tuple t
Rest(t) ==
    IF Head(todo).paths = {t} THEN Tail(todo)
    ELSE <<[Head(todo) EXCEPT !.paths = @ \ {t}]>> \o Tail(todo)

\* one staged change was applied by the tree calls that ended with r
Applied(change, t, r) ==
    /\ Call(change, t[1], t[Len(t)], r)
    /\ pc' = IF r.err = NoError THEN "staged" ELSE "raised"
    /\ todo' = Rest(t)
    /\ UNCHANGED <<repo, result, local>>

\* lines 23-28: one iteration over the deleted paths
ApplyDeleted ==
    /\ pc = "staged" /\ todo # <<>> /\ Head(todo).change = "D"
    /\ \E t \in Head(todo).paths :
          Applied("D", t, IF ~is_hidden(t[1]) THEN PathTree_prune(nodes, t[1], <<ASSETS>>)
                          ELSE Result(nodes, RetNone, NoError))

\* lines 29-33: one iteration over the added paths
ApplyAdded ==
    /\ pc = "staged" /\ todo # <<>> /\ Head(todo).change = "A"
    /\ \E t \in Head(todo).paths :
          Applied("A", t, IF ~is_hidden(t[1]) THEN PathTree_add(nodes, t[1])
                          ELSE Result(nodes, RetNone, NoError))

\* the rename with the test of the new path nested in the test of the old one
ApplyRenamed_tests_old_only ==
    /\ pc = "staged" /\ todo # <<>> /\ Head(todo).change = "R"
    /\ \E t \in Head(todo).paths :
          LET pruned == IF ~is_hidden(t[1]) THEN PathTree_prune(nodes, t[1], <<ASSETS>>)
                        ELSE Result(nodes, RetNone, NoError)
          IN  Applied("R", t, IF pruned.err # NoError THEN pruned
                              ELSE IF ~is_hidden(t[1]) /\ ~is_hidden(t[2])
                                   THEN PathTree_add(pruned.T, t[2])
                              ELSE pruned)

\* lines 34-42: one iteration over the renamed paths
ApplyRenamed ==
    /\ pc = "staged" /\ todo # <<>> /\ Head(todo).change = "R"
    /\ \E t \in Head(todo).paths :
          LET pruned == IF ~is_hidden(t[1]) THEN PathTree_prune(nodes, t[1], <<ASSETS>>)
                        ELSE Result(nodes, RetNone, NoError)
          IN  Applied("R", t, IF pruned.err # NoError THEN pruned
                              ELSE IF ~is_hidden(t[2]) THEN PathTree_add(pruned.T, t[2])
                              ELSE pruned)

\* lines 44-54: the walk over all_paths() and the return; the working tree is
\* what the file system holds when the walk reads it
Scan ==
    /\ pc = "staged" /\ todo = <<>>
    /\ \E w \in WorkTrees :
          LET found == scan(all_paths(nodes), w, {}, {})
          IN  /\ result' = Returned(found.missing, found.orphans)
              /\ repo' = [repo EXCEPT !.files = w.files, !.dirs = w.dirs]
    /\ pc' = "returned"
    /\ UNCHANGED <<treeVars, todo, local>>

\* main, lines 59-67: the exit code
Exit ==
    /\ pc = "returned"
    /\ result' = [result EXCEPT !.exit = exit_code(result.success)]
    /\ pc' = "exited"
    /\ UNCHANGED <<treeVars, repo, todo, local>>

Next ==
    \/ Build
    \/ ApplyDeleted
    \/ ApplyAdded
    \/ ApplyRenamed
    \/ Scan
    \/ Exit

Spec == InitCheck /\ [][Next]_vars

-----------------------------------------------------------------------------
(* Properties of check_unity_meta_files *)

Done == pc \in {"returned", "exited"}

\* the staged changes of the repository, as a set of entries
StagedChanges ==
    UNION {{[change |-> repo.staged[i].change, paths |-> t] : t \in repo.staged[i].paths} :
             i \in 1..Len(repo.staged)}

\* the proposed state: the paths of the index that are not hidden (the tracked
\* paths with the staged deletions, additions and renames applied), and the
\* directories above them
ProposedPaths ==
    PrefixClosure({p \in Index(repo.tracked, StagedChanges) : ~is_hidden(p)})

HasHiddenSegment(path) == \E i \in 1..Len(path) : path[i][1] = "."

\* C1: the missing set returned is exactly the companions, not a file in the
\* working tree, of the asset paths of the proposed state that exist in the
\* working tree.
C1_MissingIsExact ==
    Done => result.missing =
               {meta_file_for_asset(p) :
                   p \in {q \in ProposedPaths :
                            /\ is_asset(q)
                            /\ path_exists(repo, q)
                            /\ ~is_file(repo, meta_file_for_asset(q))}}

\* what the code returns as missing: the same set, over the paths of the tree
\* it has built
MissingOfTree ==
    Done => result.missing =
               {meta_file_for_asset(p) :
                   p \in {q \in PathSet(nodes) :
                            /\ is_asset(q)
                            /\ path_exists(repo, q)
                            /\ ~is_file(repo, meta_file_for_asset(q))}}

\* C2: the orphans set returned is exactly the metadata-file paths of the
\* proposed state that are a file in the working tree and whose asset path
\* does not exist in the working tree.
C2_OrphansIsExact ==
    Done => result.orphans =
               {m \in ProposedPaths :
                   /\ is_meta_file(m)
                   /\ is_file(repo, m)
                   /\ ~path_exists(repo, asset_for_meta_file(m))}

\* what the code returns as orphans: the same set, over the paths of the tree
\* it has built
OrphansOfTree ==
    Done => result.orphans =
               {m \in PathSet(nodes) :
                   /\ is_meta_file(m)
                   /\ is_file(repo, m)
                   /\ ~path_exists(repo, asset_for_meta_file(m))}

\* the tree the check walks holds the paths of the proposed state
TreeIsProposed == (pc = "staged" /\ todo = <<>>) => PathSet(nodes) \ {<<>>, <<ASSETS>>} = ProposedPaths \ {<<>>, <<ASSETS>>}

\* the check raises no tree error
NeverRaised == pc # "raised"

\* C3: success is returned exactly when missing and orphans are both empty
\* (both sets are returned, whatever success is), and main exits with 0 when
\* success is true and with 1 when it is false.
C3_SuccessIffBothEmpty ==
    /\ Done => (result.success <=> (result.missing = {} /\ result.orphans = {}))
    /\ pc = "exited" => /\ result.exit \in {0, 1}
                        /\ result.exit = 0 <=> result.success
                        /\ result.exit = 1 <=> (result.missing # {} \/ result.orphans # {})

\* main exited with 1 on an orphan, nothing missing
C3_Witness ==
    /\ pc = "exited"
    /\ result.exit = 1
    /\ result.missing = {}
    /\ result.orphans # {}

\* C4: no hidden path is ever in the tree; a staged change of a hidden path
\* neither prunes nor inserts (a rename: a hidden old path prunes nothing, a
\* hidden new path inserts nothing); no path of missing or orphans has a
\* hidden segment.
C4_HiddenPathsAreExcluded ==
    /\ \A q \in PathSet(nodes) : ~HasHiddenSegment(q)
    /\ (op.name \in {"D", "A"} /\ HasHiddenSegment(op.path)) => nodes = before
    /\ (op.name = "R" /\ HasHiddenSegment(op.path)) => PathSet(before) \subseteq PathSet(nodes)
    /\ (op.name = "R" /\ HasHiddenSegment(op.limit)) => PathSet(nodes) \subseteq PathSet(before)
    /\ \A m \in result.missing \cup result.orphans : ~HasHiddenSegment(m)

\* the check returned on a repository that tracks a hidden path whose deletion
\* is staged, while the working tree holds a hidden file
C4_Witness ==
    /\ Done
    /\ \E p \in repo.tracked : HasHiddenSegment(p)
    /\ op.name = "D" /\ HasHiddenSegment(op.path)
    /\ \E f \in repo.files : HasHiddenSegment(f)

\* a non-hidden path was renamed to a hidden one: pruned, nothing inserted
C4_WitnessRenamedToHidden ==
    /\ op.name = "R" /\ HasHiddenSegment(op.limit) /\ ~HasHiddenSegment(op.path)
    /\ PathSet(nodes) # PathSet(before)

\* a hidden path was renamed to a non-hidden one: inserted, nothing pruned
C4_WitnessRenamedFromHidden ==
    /\ op.name = "R" /\ HasHiddenSegment(op.path) /\ ~HasHiddenSegment(op.limit)
    /\ PathSet(nodes) # PathSet(before)

\* the addition of a hidden path was staged
C4_WitnessAddedHidden == op.name = "A" /\ HasHiddenSegment(op.path)

\* a file has replaced a tracked directory: Assets/a/a is tracked, its deletion
\* and the addition of the file Assets/a are staged, git lists the addition
\* first, the working tree holds the file Assets/a and no Assets/a.meta; the
\* check has returned
FileReplacedDirectory ==
    /\ Done
    /\ repo.tracked = {<<ASSETS, <<"a">>, <<"a">> >>}
    /\ repo.staged = << [change |-> "A", paths |-> {<< <<ASSETS, <<"a">> >> >>}],
                        [change |-> "D", paths |-> {<< <<ASSETS, <<"a">>, <<"a">> >> >>}] >>
    /\ repo.files = {<<ASSETS, <<"a">> >>}

\* there, Assets/a.meta is missing and the check reports nothing
FileReplacedDirectoryIsReported ==
    FileReplacedDirectory => <<ASSETS, <<"a", ".", "meta">> >> \in result.missing

\* after from_iterable the paths of the tree are the prefixes of the paths
\* added, and has_children holds exactly for the proper prefixes of those
BuiltIsPrefixClosure ==
    op.name = "from_iterable" =>
        /\ PathSet(nodes) = PrefixClosure(NotHidden(repo.tracked)) \cup {<<>>}
        /\ \A p \in PathSet(nodes) :
              PathTree_has_children(nodes, p).ret =
                 Ret("bool", \E q \in NotHidden(repo.tracked) : IsProperPrefix(p, q))

-----------------------------------------------------------------------------
(* Properties of PathTree, stated over the last call: `before` is the tree   *)
(* the call was made on, `nodes` the tree it left, `op` its arguments.       *)

NodeAt(T, path) == descendant(T, RootId, path)
InTree(T, path) == has_descendant(T, RootId, path)

Called(name) == pc = "tree" /\ op.name = name

\* every node of T1 is a node of T0, with the name, the parent and the
\* children it had in T0, less the children that are gone, in the same order
Survivors(T0, T1) ==
    \A n \in DOMAIN T1 :
        /\ n \in DOMAIN T0
        /\ T1[n].name = T0[n].name
        /\ T1[n].parent = T0[n].parent
        /\ T1[n].kids = SelectSeq(T0[n].kids, LAMBDA k : k \in DOMAIN T1)

\* every node of T0 is the same node in T1: same object at the same path, its
\* children of T0 first and in the same order
Preserved(T0, T1) ==
    \A n \in DOMAIN T0 :
        /\ n \in DOMAIN T1
        /\ T1[n].name = T0[n].name
        /\ T1[n].parent = T0[n].parent
        /\ IsPrefix(T0[n].kids, T1[n].kids)

\* C5: add(P) of a path P that is in the tree returns the node the tree holds
\* at P and leaves the heap as it was (paths, children, sibling order); and
\* every add leaves every node that was in the tree the same object at the
\* same path, so the node at P is still the one the first add of P returned.
C5_AddIsIdentityIdempotent ==
    Called("add") =>
        /\ Preserved(before, nodes)
        /\ \A q \in PathSet(before) : NodeAt(nodes, q) = NodeAt(before, q)
        /\ InTree(before, op.path) =>
              /\ err = NoError
              /\ ret = Ret("node", NodeAt(before, op.path))
              /\ nodes = before

\* a path with a subtree was added again: a/b, with a/b/c below it
C5_Witness ==
    /\ Called("add")
    /\ op.path = << <<"a">>, <<"b">> >>
    /\ InTree(before, << <<"a">>, <<"b">>, <<"c">> >>)
    /\ ret = Ret("node", NodeAt(nodes, op.path))

\* C6: after add(P), P and every prefix of P are in the tree, the paths of the
\* tree are those it had and the prefixes of P (the missing segments were
\* created, as new last children), and has_children(p) holds exactly for the
\* paths p of the tree that are a proper prefix of another path of the tree.
C6_AddCreatesPrefixes ==
    (Called("add") /\ ~is_absolute(op.path)) =>
        /\ err = NoError
        /\ \A q \in Prefixes(op.path) :
              PathTree_has_descendant(nodes, q).ret = Ret("bool", TRUE)
        /\ PathSet(nodes) = PathSet(before) \cup Prefixes(op.path)
        /\ ret = Ret("node", NodeAt(nodes, op.path))
        /\ \A n \in (DOMAIN nodes) \ (DOMAIN before) :
              /\ PathOf(nodes, n) \in Prefixes(op.path)
              /\ nodes[nodes[n].parent].kids[Len(nodes[nodes[n].parent].kids)] = n
        /\ \A p \in PathSet(nodes) :
              PathTree_has_children(nodes, p).ret =
                 Ret("bool", \E q \in PathSet(nodes) : IsProperPrefix(p, q))

\* a/e/f was added to a tree that held a/b only: two segments were created
C6_Witness ==
    /\ Called("add")
    /\ op.path = << <<"a">>, <<"e">>, <<"f">> >>
    /\ PathSet(before) = Prefixes(<< <<"a">>, <<"b">> >>)
    /\ Cardinality(DOMAIN nodes) = Cardinality(DOMAIN before) + 2

\* C7: remove(P), P not the root and in the tree, removes P and the paths below
\* P and nothing else, leaves every other node as it was, and returns the node
\* of P's parent.
C7_RemoveRemovesSubtreeOnly ==
    (Called("remove") /\ op.path # <<>> /\ InTree(before, op.path)) =>
        /\ err = NoError
        /\ PathSet(nodes) = {q \in PathSet(before) : ~IsPrefix(op.path, q)}
        /\ \A q \in TreePaths :
              IsPrefix(op.path, q) => PathTree_has_descendant(nodes, q).ret = Ret("bool", FALSE)
        /\ Survivors(before, nodes)
        /\ ret = Ret("node", NodeAt(before, PathParent(op.path)))
        /\ ret.val \in DOMAIN nodes

\* a/b was removed with a/b/c below it, and it was the only child of a
C7_Witness ==
    /\ Called("remove")
    /\ op.path = << <<"a">>, <<"b">> >>
    /\ InTree(before, << <<"a">>, <<"b">>, <<"c">> >>)
    /\ children_count(before, NodeAt(before, << <<"a">> >>)) = 1
    /\ InTree(nodes, << <<"a">> >>)
    /\ ~InTree(nodes, op.path)

\* C8: remove of the root path does what clear() does: the root is left with
\* no children, nothing is returned, and the root node is the one it was.
C8_RemoveRootIsClear ==
    (Called("remove") /\ op.path = <<>>) =>
        /\ err = NoError
        /\ ret = RetNone
        /\ nodes = PathTree_clear(before)
        /\ DOMAIN nodes = {RootId}
        /\ nodes[RootId] = [before[RootId] EXCEPT !.kids = <<>>]
        /\ PathTree_children_count(nodes, <<>>).ret = Ret("int", 0)
        /\ PathTree_add(nodes, << <<"a">> >>).err = NoError

\* the root path was removed from a tree of four nodes
C8_Witness ==
    /\ Called("remove")
    /\ op.path = <<>>
    /\ Cardinality(DOMAIN before) = 5
    /\ nodes[RootId].kids = <<>>

NotFoundOps == {"remove", "descendant", "children", "children_count", "has_children"}

\* C9: remove, descendant, children, children_count and has_children of a path
\* that is not in the tree fail with NotFoundError and leave the tree as it was.
C9_AbsentPathIsNotFound ==
    (pc = "tree" /\ op.name \in NotFoundOps /\ ~is_absolute(op.path)
        /\ ~InTree(before, op.path)) =>
        /\ err = "NotFoundError"
        /\ ret = RetNone
        /\ nodes = before

\* remove(a/b/c) failed on a tree that holds a/b/d: the last segment is missing
C9_Witness ==
    /\ Called("remove")
    /\ op.path = << <<"a">>, <<"b">>, <<"c">> >>
    /\ InTree(before, << <<"a">>, <<"b">>, <<"d">> >>)
    /\ ~InTree(before, op.path)
    /\ err = "NotFoundError"

\* remove(a/e/f) failed where a/e, a segment on the way, is missing
C9_WitnessOnTheWay ==
    /\ Called("remove")
    /\ op.path = << <<"a">>, <<"e">>, <<"f">> >>
    /\ InTree(before, << <<"a">> >>)
    /\ ~InTree(before, << <<"a">>, <<"e">> >>)
    /\ err = "NotFoundError"

\* the ancestor at which prune(path, limit) stops: the longest proper prefix of
\* path that is the root, the limit, or has a child beside the one on the path
StopsAt(T, path, limit) ==
    LET stops == {q \in Prefixes(path) :
                     /\ q # path
                     /\ \/ q = <<>>
                        \/ q = limit
                        \/ children_count(T, NodeAt(T, q)) > 1}
    IN  CHOOSE q \in stops : \A r \in stops : Len(r) <= Len(q)

\* C10: prune(path, limit) with the node at limit an ancestor of the node at
\* path removes path with its subtree and each ancestor left childless, up to
\* the first ancestor that has children left, is the limit or is the root;
\* that ancestor is returned; the limit, what is above it and every other
\* branch are kept as they were.
C10_PruneRemovesEmptyAncestors ==
    (Called("prune") /\ InTree(before, op.path) /\ InTree(before, op.limit)
        /\ IsProperPrefix(op.limit, op.path)) =>
        LET stop == StopsAt(before, op.path, op.limit)
            top == SubSeq(op.path, 1, Len(stop) + 1)
        IN  /\ err = NoError
            /\ PathSet(nodes) = {q \in PathSet(before) : ~IsPrefix(top, q)}
            /\ \A q \in Prefixes(op.limit) : NodeAt(nodes, q) = NodeAt(before, q)
            /\ Survivors(before, nodes)
            /\ ret = Ret("node", NodeAt(before, stop))
            /\ ret.val \in DOMAIN nodes

\* prune(a/b/c, a) removed c and the childless b, and stopped at the limit a,
\* which is left without children
C10_Witness ==
    /\ Called("prune")
    /\ op.path = << <<"a">>, <<"b">>, <<"c">> >>
    /\ op.limit = << <<"a">> >>
    /\ err = NoError
    /\ PathSet(nodes) = Prefixes(op.limit)
    /\ ret = Ret("node", NodeAt(nodes, op.limit))

\* prune(a/b/c, root path) stopped at a, which keeps its child e
C10_WitnessStopsAtSibling ==
    /\ Called("prune")
    /\ op.path = << <<"a">>, <<"b">>, <<"c">> >>
    /\ op.limit = <<>>
    /\ err = NoError
    /\ PathSet(nodes) = Prefixes(<< <<"a">>, <<"e">> >>)
    /\ ret = Ret("node", NodeAt(nodes, << <<"a">> >>))

\* C11: prune(path, limit) with both paths in the tree and limit not a proper
\* prefix of path (the node at limit is not an ancestor of the node at path)
\* fails with InvalidArgumentError and leaves the tree exactly as it was.
C11_PruneRejectsNonAncestorLimit ==
    (Called("prune") /\ InTree(before, op.path) /\ InTree(before, op.limit)
        /\ ~IsProperPrefix(op.limit, op.path)) =>
        /\ err = "InvalidArgumentError"
        /\ ret = RetNone
        /\ nodes = before

\* prune(a/b/c, a/e) failed: a/e is in the tree and is not above a/b/c
C11_Witness ==
    /\ Called("prune")
    /\ op.path = << <<"a">>, <<"b">>, <<"c">> >>
    /\ op.limit = << <<"a">>, <<"e">> >>
    /\ InTree(before, op.path) /\ InTree(before, op.limit)
    /\ err = "InvalidArgumentError"
    /\ nodes = before

\* prune(a, a/b) failed: the limit is below the path
C11_WitnessLimitBelow ==
    /\ Called("prune")
    /\ op.path = << <<"a">> >>
    /\ op.limit = << <<"a">>, <<"b">> >>
    /\ InTree(before, op.limit)
    /\ err = "InvalidArgumentError"

\* prune(a/b, a/b) failed: the limit is the path itself
C11_WitnessLimitIsPath ==
    /\ Called("prune")
    /\ op.path = << <<"a">>, <<"b">> >>
    /\ op.limit = op.path
    /\ InTree(before, op.path)
    /\ err = "InvalidArgumentError"

-----------------------------------------------------------------------------
(* Properties of the traversals *)

\* the position of x in the sequence s that holds it
Pos(s, x) == CHOOSE i \in 1..Len(s) : s[i] = x

Depth(T, n) == Len(PathOf(T, n))

\* s holds every node of T, each once
YieldsEachNodeOnce(T, s) ==
    /\ Len(s) = Cardinality(DOMAIN T)
    /\ Range(s) = DOMAIN T

NamesOf(T, s) == [i \in 1..Len(s) |-> T[s[i]].name]

\* the tree of the examples: a/b/c, a/b/d, a/e/f added in this order
ExampleTree(T) ==
    /\ PathSet(T) = TreePaths
    /\ NamesOf(T, T[NodeAt(T, << <<"a">> >>)].kids) = << <<"b">>, <<"e">> >>
    /\ NamesOf(T, T[NodeAt(T, << <<"a">>, <<"b">> >>)].kids) = << <<"c">>, <<"d">> >>

\* C12: traverse_breadth_first yields every node once, the root first, a node
\* of a level before every node of a deeper level, and two nodes of one level
\* in the order of their parents or, under one parent, in sibling order.
C12_BreadthFirstOrder ==
    Called("traverse_breadth_first") =>
        LET s == ret.val
        IN  /\ YieldsEachNodeOnce(nodes, s)
            /\ s[1] = RootId
            /\ \A i \in 1..Len(s), j \in 1..Len(s) :
                  i < j =>
                     /\ Depth(nodes, s[i]) <= Depth(nodes, s[j])
                     /\ (Depth(nodes, s[i]) = Depth(nodes, s[j])) =>
                           LET pi == nodes[s[i]].parent
                               pj == nodes[s[j]].parent
                           IN  IF pi = pj
                               THEN Pos(nodes[pi].kids, s[i]) < Pos(nodes[pi].kids, s[j])
                               ELSE Pos(s, pi) < Pos(s, pj)
            /\ ExampleTree(nodes) =>
                  NamesOf(nodes, s) = <<DOT, <<"a">>, <<"b">>, <<"e">>, <<"c">>, <<"d">>, <<"f">> >>

\* the tree of the example was walked breadth first
C12_Witness ==
    /\ Called("traverse_breadth_first")
    /\ ExampleTree(nodes)
    /\ Len(ret.val) = 7

C14_AllPathsIsBreadthFirst ==
    Called("all_paths") =>
        LET ps == ret.val
            s == traverse_breadth_first(nodes)
        IN  /\ Len(ps) = Cardinality(DOMAIN nodes)
            /\ Range(ps) = PathSet(nodes)
            /\ ps[1] = <<>>
            /\ Len(ps) = Len(s)
            /\ \A i \in 1..Len(ps) : ps[i] = PathOf(nodes, s[i])
            /\ ExampleTree(nodes) =>
                  ps = << <<>>,
                          << <<"a">> >>,
                          << <<"a">>, <<"b">> >>,
                          << <<"a">>, <<"e">> >>,
                          << <<"a">>, <<"b">>, <<"c">> >>,
                          << <<"a">>, <<"b">>, <<"d">> >>,
                          << <<"a">>, <<"e">>, <<"f">> >> >>

\* the paths of the tree of the example were listed
C14_Witness ==
    /\ Called("all_paths")
    /\ ExampleTree(nodes)
    /\ Len(ret.val) = 7

-----------------------------------------------------------------------------
(* Absolute paths *)

PathOps == {"add", "remove", "prune", "children", "children_count",
            "has_children", "descendant", "has_descendant"}

\* C15: every PathTree operation that takes a path fails with InvalidPathError
\* when the path is absolute, and leaves the tree as it was.
C15_AbsolutePathIsInvalidPath ==
    (pc = "tree" /\ op.name \in PathOps /\ is_absolute(op.path)) =>
        /\ err = "InvalidPathError"
        /\ nodes = before

\* the same, whatever the error is called: the call fails
AbsolutePathFails ==
    (pc = "tree" /\ op.name \in PathOps /\ is_absolute(op.path)) => err # NoError

\* what the code does hold to: an absolute path changes nothing, add,
\* children_count and has_children reject it, has_descendant answers False,
\* and remove, prune, children and descendant fail on the lookup of "/"
AbsolutePathInCode ==
    (pc = "tree" /\ op.name \in PathOps /\ is_absolute(op.path)) =>
        /\ nodes = before
        /\ op.name \in {"add", "children_count", "has_children"} => err = "InvalidPathError"
        /\ op.name = "has_descendant" => (err = NoError /\ ret = Ret("bool", FALSE))
        /\ op.name \in {"remove", "prune", "children", "descendant"} => err = "NotFoundError"

-----------------------------------------------------------------------------
(* Properties of PathNode.add_child *)

HasSeparator(name) == "/" \in Range(name)

\* C16: add_child(name) fails with InvalidNameError if name holds a separator
\* or is empty and with DuplicateChildError if a child of that name exists; a
\* failed call links no child and leaves the children as they were; a
\* successful call returns a new node, the last child of the node called on.
C16_AddChildRejectsBadNames ==
    Called("add_child") =>
        LET n == NodeAt(before, op.path)
        IN  /\ (HasSeparator(op.childname) \/ op.childname = <<>>) => err = "InvalidNameError"
            /\ (has_child(before, n, op.childname) /\ ~HasSeparator(op.childname))
                  => err = "DuplicateChildError"
            /\ err # NoError => nodes = before
            /\ err = NoError =>
                  /\ ret.tag = "node"
                  /\ ret.val \notin DOMAIN before
                  /\ DOMAIN nodes = (DOMAIN before) \cup {ret.val}
                  /\ nodes[ret.val] = PathNode(op.childname, n)
                  /\ nodes[n] = [before[n] EXCEPT !.kids = Append(@, ret.val)]
                  /\ \A i \in (DOMAIN before) \ {n} : nodes[i] = before[i]

\* what the code does hold to: the same, with "holds a separator" read as
\* "has more than one part"
AddChildInCode ==
    Called("add_child") =>
        LET n == NodeAt(before, op.path)
        IN  /\ (Len(NameParts(op.childname)) > 1 \/ op.childname = <<>>)
                  => err = "InvalidNameError"
            /\ (has_child(before, n, op.childname) /\ Len(NameParts(op.childname)) <= 1)
                  => err = "DuplicateChildError"
            /\ err # NoError => nodes = before
            /\ err = NoError =>
                  /\ ret.val \notin DOMAIN before
                  /\ DOMAIN nodes = (DOMAIN before) \cup {ret.val}
                  /\ nodes[ret.val] = PathNode(op.childname, n)
                  /\ nodes[n] = [before[n] EXCEPT !.kids = Append(@, ret.val)]
                  /\ \A i \in (DOMAIN before) \ {n} : nodes[i] = before[i]

\* add_child("a/") returned a node whose name holds a separator
AddChildTookSeparator ==
    /\ Called("add_child")
    /\ op.childname = <<"a", "/">>
    /\ err = NoError
    /\ nodes[ret.val].name = <<"a", "/">>

-----------------------------------------------------------------------------
(* Properties of the classification *)

PathCalled(name) == pc = "paths" /\ op.name = name

\* the name ends in ".meta" and has something before it: its final suffix is
\* ".meta"
EndsInMeta(name) ==
    /\ Len(name) >= 3
    /\ name[Len(name) - 1] = "."
    /\ name[Len(name)] = "meta"

FinalSuffixIsMeta(path) == path # <<>> /\ EndsInMeta(path[Len(path)])

UnderAssets(path) == Len(path) >= 2 /\ path[1] = ASSETS

\* C17: is_asset(p) holds iff p's first segment is Assets, p has one segment
\* more at least, no segment of p starts with a dot and p's final suffix is
\* not ".meta"; is_meta_file(p) holds iff the same holds with the final
\* suffix being ".meta".  No path is both, Assets alone is neither, and a
\* path under Assets without a hidden segment is exactly one of the two.
C17_ClassificationIsExact ==
    /\ PathCalled("is_asset") =>
          /\ err = NoError
          /\ ret = Ret("bool", /\ UnderAssets(op.path)
                                /\ ~HasHiddenSegment(op.path)
                                /\ ~FinalSuffixIsMeta(op.path))
          /\ ret.val => ~is_meta_file(op.path)
          /\ op.path = <<ASSETS>> => ~ret.val
          /\ (UnderAssets(op.path) /\ ~HasHiddenSegment(op.path))
                => (ret.val <=> ~is_meta_file(op.path))
    /\ PathCalled("is_meta_file") =>
          /\ err = NoError
          /\ ret = Ret("bool", /\ UnderAssets(op.path)
                                /\ ~HasHiddenSegment(op.path)
                                /\ FinalSuffixIsMeta(op.path))
          /\ ret.val => ~is_asset(op.path)
          /\ op.path = <<ASSETS>> => ~ret.val
          /\ (UnderAssets(op.path) /\ ~HasHiddenSegment(op.path))
                => (ret.val <=> ~is_asset(op.path))

\* Assets/a/a..meta is a metadata file: the suffix is what follows the last dot
C17_Witness ==
    /\ PathCalled("is_meta_file")
    /\ op.path = <<ASSETS, <<"a">>, <<"a", ".", ".", "meta">> >>
    /\ ret = Ret("bool", TRUE)

\* Assets/a.meta/a is an asset: only the final segment's suffix counts
C17_WitnessMetaDirectory ==
    /\ PathCalled("is_asset")
    /\ op.path = <<ASSETS, <<"a", ".", "meta">>, <<"a">> >>
    /\ ret = Ret("bool", TRUE)

\* Assets/.meta is neither: the name starts with a dot
C17_WitnessDotMeta ==
    /\ PathCalled("is_meta_file")
    /\ op.path = <<ASSETS, <<".", "meta">> >>
    /\ ret = Ret("bool", FALSE)
    /\ ~is_asset(op.path)

C18_WitnessDoubleMeta ==
    /\ PathCalled("asset_for_meta_file")
    /\ op.path = << <<"a", ".", "meta", ".", "meta">> >>
    /\ ret = Ret("path", << <<"a", ".", "meta">> >>)

\* "a." became "a..meta" and comes back as "a.": a trailing dot is no suffix
C18_WitnessTrailingDot ==
    /\ PathCalled("meta_file_for_asset")
    /\ op.path = << <<"a", ".">> >>
    /\ ret = Ret("path", << <<"a", ".", ".", "meta">> >>)

-----------------------------------------------------------------------------
(* Properties of GitRepository *)

GitCalled(name) == pc = "git" /\ op.name = name

\* the records a dict holds under a key; none where the key is absent
RecordsUnder(changes, key) ==
    UNION {changes[i].paths : i \in {j \in 1..Len(changes) : changes[j].change = key}}

\* the entries of the output that have the status st
EntriesOf(out, st) == {out[i] : i \in {j \in 1..Len(out) : out[j].status = st}}

\* C19: staged_at returns one 1-path record under A per added entry, one
\* under D per deleted entry and one (from, to) record under R per renamed
\* entry of git's output, and nothing else: an entry of another kind gives no
\* record and leaves the records of the other entries as they are.
C19_StagedAtIgnoresOtherKinds ==
    GitCalled("staged_at") =>
        /\ \A i \in 1..Len(ret.val) : ret.val[i].change \in {"A", "D", "R"}
        /\ RecordsUnder(ret.val, "A")
              = {<<Path(e.paths[1])>> : e \in EntriesOf(repo.diff, StatusA)}
        /\ RecordsUnder(ret.val, "D")
              = {<<Path(e.paths[1])>> : e \in EntriesOf(repo.diff, StatusD)}
        /\ RecordsUnder(ret.val, "R")
              = {<<Path(e.paths[1]), Path(e.paths[2])>> : e \in EntriesOf(repo.diff, StatusR)}

\* the same for the outputs in which no path of an entry of another kind is
\* "A" or "D" or starts with "R"
StagedAtOnPlainNames ==
    (GitCalled("staged_at")
        /\ \A i \in 1..Len(repo.diff) :
              repo.diff[i].status \in {StatusM, StatusC} =>
                 \A w \in Range(repo.diff[i].paths) : w # <<"A">> /\ w # <<"D">> /\ w[1] # "R") =>
        /\ RecordsUnder(ret.val, "A")
              = {<<Path(e.paths[1])>> : e \in EntriesOf(repo.diff, StatusA)}
        /\ RecordsUnder(ret.val, "D")
              = {<<Path(e.paths[1])>> : e \in EntriesOf(repo.diff, StatusD)}
        /\ RecordsUnder(ret.val, "R")
              = {<<Path(e.paths[1]), Path(e.paths[2])>> : e \in EntriesOf(repo.diff, StatusR)}

\* git printed "M Ra" and "A a": the modified file's name Ra was read as a
\* rename status, and the addition of a was returned as the rename of A to a
ModifiedNameReadAsStatus ==
    /\ GitCalled("staged_at")
    /\ repo.diff = << [status |-> StatusM, paths |-> << <<"R", "a">> >>],
                      [status |-> StatusA, paths |-> << <<"a">> >>] >>
    /\ ret.val = << [change |-> "R", paths |-> { << << <<"A">> >>, << <<"a">> >> >> }] >>

\* C20: tracked_at(scope) returns the files of HEAD that lie under scope and
\* no other, whether scope is a directory of the working tree or not.
C20_TrackedAtIsScoped ==
    GitCalled("tracked_at") =>
        ret = Ret("paths", {Path(w) : w \in {v \in repo.head : IsProperPrefix(op.path, Path(v))}})

\* the same where the scope is a directory of the working tree
TrackedAtOfDirectory ==
    (GitCalled("tracked_at") /\ (op.path = <<>> \/ op.path \in repo.dirs)) =>
        ret = Ret("paths", {Path(w) : w \in {v \in repo.head : IsProperPrefix(op.path, Path(v))}})

\* HEAD holds d/a and b, the working tree has no directory d: tracked_at("d/")
\* returned b too
ScopeNotADirectory ==
    /\ GitCalled("tracked_at")
    /\ op.path = << <<"d">> >>
    /\ repo.head = { <<"d", "/", "a">>, <<"b">> }
    /\ op.path \notin repo.dirs
    /\ << <<"b">> >> \in ret.val

-----------------------------------------------------------------------------
(* The order in which check_unity_meta_files applies the staged changes *)

\* the staged changes that are still to be applied
RemainingChanges ==
    UNION {{[change |-> todo[i].change, paths |-> t] : t \in todo[i].paths} :
             i \in 1..Len(todo)}

\* the staged changes applied so far, the last one included
AppliedChanges == StagedChanges \ RemainingChanges

\* the staged change the last step applied
LastChange ==
    [change |-> op.name,
     paths |-> IF op.name = "R" THEN <<op.path, op.limit>> ELSE <<op.path>>]

\* applying the change calls prune / calls add
Removes(c) == c.change \in {"D", "R"} /\ ~HasHiddenSegment(c.paths[1])
Inserts(c) == c.change \in {"A", "R"} /\ ~HasHiddenSegment(c.paths[Len(c.paths)])

\* C22: the staged changes are applied in two phases: when a step prunes (a
\* deleted path or a renamed-away path), no staged change applied before it
\* has inserted a path (an added path or a renamed-to path), whatever the
\* order of the kinds in the staged mapping.
C22_RemovalsBeforeInsertions ==
    (op.name \in {"D", "R"} /\ Removes(LastChange)) =>
        \A c \in AppliedChanges \ {LastChange} : ~Inserts(c)

\* a deletion was applied after an addition
C22_DeletedAfterAdded ==
    /\ op.name = "D" /\ Removes(LastChange)
    /\ \E c \in AppliedChanges : c.change = "A" /\ Inserts(c)

\* the old path of a rename was pruned after the new path of another rename
\* was inserted
C22_RenamedAfterRenamed ==
    /\ op.name = "R" /\ Removes(LastChange)
    /\ \E c \in AppliedChanges \ {LastChange} : c.change = "R" /\ Inserts(c)

-----------------------------------------------------------------------------
(* What a staged deletion and a staged rename do to the tree *)

\* the paths the last step took out of the tree
RemovedPaths == PathSet(before) \ PathSet(nodes)

\* C23: a staged rename (old, new) prunes old if and only if old is not
\* hidden and then inserts new if and only if new is not hidden, each test on
\* its own; a staged deletion of a path that is not hidden prunes it; every
\* prune is bounded at 'Assets': no staged change removes or replaces the
\* 'Assets' node or the root, and every path removed lies below 'Assets', on
\* the branch of the pruned path.
C23_RenameAndDeletionAreBounded ==
    /\ (op.name = "R" /\ err = NoError) =>
          /\ HasHiddenSegment(op.path) => RemovedPaths = {}
          /\ ~HasHiddenSegment(op.path) =>
                /\ op.path \in PathSet(before)
                /\ op.path \in PathSet(nodes) =>
                      (~HasHiddenSegment(op.limit) /\ IsPrefix(op.path, op.limit))
          /\ HasHiddenSegment(op.limit) => PathSet(nodes) \subseteq PathSet(before)
          /\ ~HasHiddenSegment(op.limit) => op.limit \in PathSet(nodes)
    /\ (op.name = "D" /\ err = NoError /\ ~HasHiddenSegment(op.path)) =>
          /\ op.path \in PathSet(before)
          /\ op.path \notin PathSet(nodes)
    /\ op.name \in {"D", "A", "R"} =>
          /\ NodeAt(nodes, <<>>) = RootId
          /\ InTree(before, <<ASSETS>>) =>
                NodeAt(nodes, <<ASSETS>>) = NodeAt(before, <<ASSETS>>)
          /\ \A q \in RemovedPaths :
                /\ IsProperPrefix(<<ASSETS>>, q)
                /\ IsPrefix(q, op.path) \/ IsPrefix(op.path, q)

\* a rename of two paths that are not hidden: the old path and its emptied
\* parent are gone, the new path is in, 'Assets' is kept
C23_Witness ==
    /\ op.name = "R" /\ err = NoError
    /\ ~HasHiddenSegment(op.path) /\ ~HasHiddenSegment(op.limit)
    /\ Cardinality(RemovedPaths) >= 2
    /\ op.limit \in PathSet(nodes) \ PathSet(before)
    /\ InTree(nodes, <<ASSETS>>)

\* the deletion of the last path below 'Assets': 'Assets' is kept, childless
C23_WitnessAssetsEmptied ==
    /\ op.name = "D" /\ err = NoError
    /\ RemovedPaths # {}
    /\ PathSet(nodes) = {<<>>, <<ASSETS>>}

-----------------------------------------------------------------------------
(* What a successful check says *)

\* the working tree the check has read
OnDisk(p) == p \in repo.files \cup repo.dirs
FileOnDisk(p) == p \in repo.files

C25_WitnessAssetNotOnDisk ==
    /\ Done /\ result.success
    /\ \E p \in PathSet(nodes) \cap ProposedPaths : is_asset(p) /\ ~OnDisk(p)

-----------------------------------------------------------------------------
(* The check as a function of the order of the staged changes *)

\* lines 23-42: the tree calls made for one staged change c on the tree T
apply_change(T, c) ==
    IF c.change = "D"
    THEN IF ~is_hidden(c.paths[1]) THEN PathTree_prune(T, c.paths[1], <<ASSETS>>)
         ELSE Result(T, RetNone, NoError)
    ELSE IF c.change = "A"
    THEN IF ~is_hidden(c.paths[1]) THEN PathTree_add(T, c.paths[1])
         ELSE Result(T, RetNone, NoError)
    ELSE LET pruned == IF ~is_hidden(c.paths[1]) THEN PathTree_prune(T, c.paths[1], <<ASSETS>>)
                       ELSE Result(T, RetNone, NoError)
         IN  IF pruned.err # NoError THEN pruned
             ELSE IF ~is_hidden(c.paths[2]) THEN PathTree_add(pruned.T, c.paths[2])
             ELSE pruned

\* lines 22-42: the loop over the staged changes, enumerated in the order s
RECURSIVE apply_staged(_, _)
apply_staged(T, s) ==
    IF s = <<>> THEN Result(T, RetNone, NoError)
    ELSE LET r == apply_change(T, Head(s))
         IN  IF r.err # NoError THEN r ELSE apply_staged(r.T, Tail(s))

\* lines 9-54: the check on the tracked paths, the staged changes in the order
\* s and the working tree w
check_unity_meta_files(tracked, s, w) ==
    LET built == from_iterable(EmptyTree, CHOOSE o \in Orderings(NotHidden(tracked)) : TRUE)
        r == apply_staged(built.T, s)
        found == scan(all_paths(r.T), w, {}, {})
    IN  [err |-> r.err,
         paths |-> PathSet(r.T),
         returned |-> Returned(found.missing, found.orphans)]

\* the orders a staged mapping can enumerate the changes C in: the changes of
\* a kind one after the other, the kinds and the paths of a kind in any order
Enumerations(C) ==
    {s \in Orderings(C) :
        \A i \in 1..Len(s), j \in 1..Len(s), k \in 1..Len(s) :
            (i < j /\ j < k /\ s[i].change = s[k].change) => s[j].change = s[i].change}

\* the step the actions took is the step of apply_change
StepIsApplyChange ==
    op.name \in {"D", "A", "R"} =>
        LET r == apply_change(before, LastChange)
        IN  nodes = r.T /\ err = r.err

\* C26: for the same tracked paths, staged changes and working tree, the paths
\* of the tree and the returned (success, missing, orphans) are the same for
\* every order in which the kinds and the paths of a kind are enumerated.
C26_ResultIsOrderIndependent ==
    pc = "returned" =>
        \A s \in Enumerations(StagedChanges) :
            LET other == check_unity_meta_files(repo.tracked, s, repo)
            IN  /\ other.err = NoError
                /\ other.paths = PathSet(nodes)
                /\ other.returned = result

\* the check has returned on an added path below a deleted one
C26_AddedUnderDeleted ==
    /\ pc = "returned"
    /\ \E c \in StagedChanges, d \in StagedChanges :
          /\ c.change = "A" /\ d.change = "D"
          /\ IsProperPrefix(d.paths[1], c.paths[1])

\* there, the other enumeration of the two kinds leaves another tree
C26_OrderChangesTheTree ==
    /\ C26_AddedUnderDeleted
    /\ \E s \in Enumerations(StagedChanges) :
          check_unity_meta_files(repo.tracked, s, repo).paths # PathSet(nodes)

\* and another result
C26_OrderChangesTheResult ==
    /\ C26_AddedUnderDeleted
    /\ \E s \in Enumerations(StagedChanges) :
          check_unity_meta_files(repo.tracked, s, repo).returned.missing # result.missing

-----------------------------------------------------------------------------
(* The tree errors of the check *)

\* every staged-deleted and every renamed-from path is a tracked path under
\* 'Assets', and no tracked path is a prefix of another
WellFormed ==
    /\ PrefixFree(repo.tracked)
    /\ \A c \in StagedChanges :
          c.change \in {"D", "R"} =>
              c.paths[1] \in repo.tracked /\ IsProperPrefix(<<ASSETS>>, c.paths[1])

\* C27: on well-formed input the check raises no tree error: every prune
\* finds its target and the 'Assets' limit node in the tree and leaves the
\* limit node in the tree, in the order the check applies the staged changes
\* and in every other order, so the check never stops in a raise.
C27_NoTreeErrorOnWellFormedInput ==
    WellFormed =>
        /\ pc # "raised"
        /\ err = NoError
        /\ (op.name \in {"D", "R"} /\ Removes(LastChange)) =>
              /\ InTree(before, op.path)
              /\ InTree(before, <<ASSETS>>)
              /\ InTree(nodes, <<ASSETS>>)
        /\ op.name = "from_iterable" =>
              \A s \in Orderings(StagedChanges) : apply_staged(nodes, s).err = NoError

\* the check has returned after two prunes, the second one emptying 'Assets'
C27_Witness ==
    /\ WellFormed
    /\ Done
    /\ op.name \in {"D", "R"} /\ Removes(LastChange)
    /\ \E c \in AppliedChanges \ {LastChange} : Removes(c)
    /\ PathSet(before) # PathSet(nodes)
    /\ PathSet(nodes) = {<<>>, <<ASSETS>>}

\* a prune was applied after an addition below its target
C27_WitnessPruneAfterAdd ==
    /\ WellFormed
    /\ op.name = "D" /\ Removes(LastChange) /\ err = NoError
    /\ \E c \in AppliedChanges : c.change = "A" /\ IsProperPrefix(op.path, c.paths[1])

-----------------------------------------------------------------------------
(* The shape of the tree *)

\* the nodes the root reaches
Reachable(T) == Subtree(T, RootId)

\* C24: after every sequence of add, remove, prune, clear, add_child and
\* remove_child the tree has exactly one root: the node it was created with,
\* named ".", with no parent; every other node the root reaches has a parent
\* that the root reaches and is the child its parent holds under its name;
\* names are not empty and no two children of a node have the same name.
C24_TreeShapeIsKept ==
    /\ RootId \in DOMAIN nodes
    /\ nodes[RootId].name = DOT
    /\ nodes[RootId].parent = None
    /\ \A n \in Reachable(nodes) \ {RootId} :
          /\ nodes[n].parent # None
          /\ nodes[n].parent \in Reachable(nodes)
          /\ has_child(nodes, nodes[n].parent, nodes[n].name)
          /\ child(nodes, nodes[n].parent, nodes[n].name) = n
          /\ Cardinality({i \in 1..Len(nodes[nodes[n].parent].kids) :
                             nodes[nodes[n].parent].kids[i] = n}) = 1
    /\ \A n \in Reachable(nodes) :
          /\ Len(nodes[n].name) > 0
          /\ \A i \in 1..Len(nodes[n].kids), j \in 1..Len(nodes[n].kids) :
                i # j => nodes[nodes[n].kids[i]].name # nodes[nodes[n].kids[j]].name

\* a prune has removed the sibling, made by add, of a child made by
\* add_child with a name that no path of add has
C24_Witness ==
    /\ op.name = "prune" /\ err = NoError
    /\ \E n \in Reachable(nodes) \ {RootId} :
          /\ nodes[n].name \in {<<"a", "/">>, <<"/">>}
          /\ Len(before[nodes[n].parent].kids) = 2
          /\ Len(nodes[nodes[n].parent].kids) = 1

\* remove_child has unlinked a node with a child below it
C24_WitnessRemoveChild ==
    /\ op.name = "remove_child" /\ err = NoError
    /\ Cardinality(DOMAIN before) - Cardinality(DOMAIN nodes) >= 2

\* clear was called on a tree of several nodes
C24_WitnessClear ==
    /\ op.name = "clear"
    /\ Size(before) = MaxShape
    /\ DOMAIN nodes = {RootId}

-----------------------------------------------------------------------------
(* The limit of prune *)

\* the limit is not a proper ancestor of the path: it is the path itself, it
\* lies below the path or on another branch, or the path is the root path
NotProperAncestor(limit, path) == ~IsProperPrefix(limit, path)

\* C28: prune(P, L) where L is P, lies below P or on another branch, and every
\* prune of the root path, fails and leaves the tree as it was (with
\* InvalidArgumentError when P and L are both in the tree); prune(P, root
\* path) succeeds for every P in the tree other than the root path, removes P
\* and keeps the root.
C28_PruneLimitIsProperAncestor ==
    Called("prune") =>
        /\ NotProperAncestor(op.limit, op.path) =>
              /\ err # NoError
              /\ nodes = before
              /\ (InTree(before, op.path) /\ InTree(before, op.limit)) =>
                    err = "InvalidArgumentError"
        /\ (op.limit = <<>> /\ op.path # <<>> /\ InTree(before, op.path)) =>
              /\ err = NoError
              /\ ~InTree(nodes, op.path)
              /\ RootId \in DOMAIN nodes
              /\ nodes[RootId].name = DOT /\ nodes[RootId].parent = None
              /\ ret.val \in DOMAIN nodes

\* prune(a/b/c, root path) on the tree of a/b/c alone: every node but the root
\* is removed, the root is returned
C28_Witness ==
    /\ Called("prune")
    /\ op.path = << <<"a">>, <<"b">>, <<"c">> >>
    /\ op.limit = <<>>
    /\ PathSet(before) = Prefixes(op.path)
    /\ err = NoError
    /\ DOMAIN nodes = {RootId}
    /\ ret = Ret("node", RootId)

\* prune(root path, root path) failed on a tree that holds a/b
C28_WitnessRootPath ==
    /\ Called("prune")
    /\ op.path = <<>> /\ op.limit = <<>>
    /\ InTree(before, << <<"a">>, <<"b">> >>)
    /\ err = "InvalidArgumentError"
    /\ nodes = before

\* prune(a/e, a/b) failed: the limit is on another branch
C28_WitnessOtherBranch ==
    /\ Called("prune")
    /\ op.path = << <<"a">>, <<"e">> >>
    /\ op.limit = << <<"a">>, <<"b">> >>
    /\ InTree(before, op.path) /\ InTree(before, op.limit)
    /\ err = "InvalidArgumentError"
    /\ nodes = before

\* prune(a, a) failed, a being a child of the root
C28_WitnessSelf ==
    /\ Called("prune")
    /\ op.path = << <<"a">> >> /\ op.limit = op.path
    /\ InTree(before, op.path)
    /\ err = "InvalidArgumentError"
    /\ nodes = before

-----------------------------------------------------------------------------
(* UnityGitRepository.proposed *)

\* line 422: the tracked paths under Assets that are assets
Assets(tracked) == {p \in tracked : is_asset(p)}

InitProposed ==
    /\ nodes = EmptyTree
    /\ op = NoOp
    /\ ret = RetNone
    /\ err = NoError
    /\ before = EmptyTree
    /\ pc = "proposed"
    /\ \E tracked \in TrackedSets :
          \E C \in ChangeSets(tracked) :
             \E staged \in StagedDicts(C) :
                repo = [tracked |-> tracked, staged |-> staged, files |-> {}, dirs |-> {}]
    /\ todo = <<>>
    /\ result = NoResult
    /\ local = Unbound

\* lines 422-423: the tree of the tracked assets
ProposedBuild ==
    /\ pc = "proposed"
    /\ \E paths \in Orderings(Assets(repo.tracked)) :
          Call("from_iterable", <<>>, <<>>, from_iterable(EmptyTree, paths))
    /\ pc' = "p_staged"
    /\ todo' = repo.staged
    /\ UNCHANGED <<repo, result, local>>

\* one iteration of a loop of proposed() ended with r
ProposedStep(change, t, r) ==
    /\ Call(change, t[1], t[Len(t)], r)
    /\ pc' = IF r.err = NoError THEN "p_staged" ELSE "p_raised"
    /\ todo' = Rest(t)
    /\ UNCHANGED <<repo, result>>

\* lines 426-428: one iteration over the deleted paths; the loop binds `path`
ProposedDeleted ==
    /\ pc = "p_staged" /\ todo # <<>> /\ Head(todo).change = "D"
    /\ \E t \in Head(todo).paths :
          /\ ProposedStep("D", t, PathTree_prune(nodes, t[1], <<ASSETS>>))
          /\ local' = [bound |-> TRUE, path |-> t[1]]

\* lines 429-431: one iteration over the added paths; the loop binds `path`
ProposedAdded ==
    /\ pc = "p_staged" /\ todo # <<>> /\ Head(todo).change = "A"
    /\ \E t \in Head(todo).paths :
          /\ ProposedStep("A", t, PathTree_add(nodes, t[1]))
          /\ local' = [bound |-> TRUE, path |-> t[1]]

\* lines 432-435: one iteration over the renamed paths; the loop binds old and
\* new, and prunes `path`
ProposedRenamed ==
    /\ pc = "p_staged" /\ todo # <<>> /\ Head(todo).change = "R"
    /\ \E t \in Head(todo).paths :
          LET pruned == IF ~local.bound THEN Raise(nodes, "UnboundLocalError")
                        ELSE PathTree_prune(nodes, local.path, <<ASSETS>>)
          IN  ProposedStep("R", t, IF pruned.err # NoError THEN pruned
                                   ELSE PathTree_add(pruned.T, t[2]))
    /\ UNCHANGED local

\* line 436: the tree is returned
ProposedReturn ==
    /\ pc = "p_staged" /\ todo = <<>>
    /\ pc' = "p_returned"
    /\ UNCHANGED <<treeVars, repo, todo, result, local>>

NextProposed ==
    \/ ProposedBuild
    \/ ProposedDeleted
    \/ ProposedAdded
    \/ ProposedRenamed
    \/ ProposedReturn

SpecProposed == InitProposed /\ [][NextProposed]_vars

\* the files of the proposed state: the tracked assets with the staged
\* changes applied
ProposedFiles == (Assets(repo.tracked) \ Gone(StagedChanges)) \cup Come(StagedChanges)

\* C21: proposed() completes without error for every staged deletion,
\* addition and rename of tracked paths, and the tree it returns is the
\* proposed state: every staged-deleted path is absent (unless a path that
\* has come lies below it), every staged-added path is present, for every
\* staged rename the old path is absent and the new one present, no directory
\* left empty remains, and 'Assets' is kept.
C21_ProposedIsTheProposedState ==
    /\ pc # "p_raised"
    /\ pc = "p_returned" =>
          /\ \A c \in StagedChanges :
                /\ c.change \in {"D", "R"} =>
                      \/ c.paths[1] \notin PathSet(nodes)
                      \/ \E n \in Come(StagedChanges) : IsProperPrefix(c.paths[1], n)
                /\ c.change \in {"A", "R"} => c.paths[Len(c.paths)] \in PathSet(nodes)
          /\ \A q \in PathSet(nodes) \ {<<>>, <<ASSETS>>} :
                \E f \in ProposedFiles : IsPrefix(q, f)
          /\ Assets(repo.tracked) # {} => InTree(nodes, <<ASSETS>>)

\* a rename is the only staged change: `path` is not bound when it is pruned
C21_RenameAloneRaises ==
    /\ pc = "p_raised"
    /\ err = "UnboundLocalError"
    /\ Len(repo.staged) = 1 /\ op.name = "R"
    /\ is_asset(op.path) /\ is_asset(op.limit)

\* a rename after an addition: the added path is pruned, the old path of the
\* rename is still in the tree that is returned
C21_RenamePrunesAddedPath ==
    /\ pc = "p_returned"
    /\ op.name = "R" /\ err = NoError
    /\ local.bound /\ local.path # op.path
    /\ local.path \notin PathSet(nodes)
    /\ \E c \in StagedChanges : c.change = "A" /\ c.paths[1] = local.path
    /\ op.path \in PathSet(nodes)

\* the deletion of a tracked .meta file: the tree holds assets only and the
\* prune does not find its target
C21_DeletedMetaFileRaises ==
    /\ pc = "p_raised"
    /\ op.name = "D" /\ err = "NotFoundError"
    /\ op.path \in repo.tracked /\ is_meta_file(op.path)


====
